---- MODULE Spec2Model ----
(***************************************************************************)
(* Bootstrap and supervision of the Tweetcord bot process (src/bot.py).    *)
(*                                                                         *)
(* main() binds the status web server, then runs the bot client inside a   *)
(* try/finally that cleans the web runner up.  Once the client is          *)
(* connected the library starts one on_ready task per ready event and one  *)
(* task per command, all on the event loop of main(); they give the loop   *)
(* back at each await and live until asyncio.run() ends the loop.  An      *)
(* exception that escapes an event handler is caught and logged by the     *)
(* library's event runner and does not reach bot.start().                  *)
(*                                                                         *)
(* The checker, the store functions and the presence updater are imported  *)
(* by bot.py from modules that are not part of the source under study;     *)
(* they are modelled from their specification.                             *)
(***************************************************************************)
EXTENDS Integers, Sequences, FiniteSets, Bags, TLC

\* number of extension modules in ./cogs, and of accounts the store may track
NumExt == 3
NumAccts == 2
\* commands the operator sends to one process image, and ready events the
\* client delivers after the first one
MaxCmds == 2
MaxReady == 1

ExtNames == 1..NumExt
Accts == 1..NumAccts
\* the on_ready tasks of one process image, one per ready event
Tasks == 1..(MaxReady + 1)

\* client names: "A" and "B" may be configured, "X" never is
ClientIds == {"A", "B", "X"}
ClientLists == {<<"A">>, <<"B", "A">>}
NoRecord == "-"

EnvNames == {"BOT_TOKEN", "DATA_PATH", "TWITTER_TOKEN"}
\* a variable is absent from os.environ, carries the empty string or carries a
\* non-empty value
EnvVals == {"unset", "empty", "set"}
\* the values enumerated for one variable: the empty string for DATA_PATH, which
\* bot.py hands to os.path.join, where None and '' part ways
EnvValsOf(v) == IF v = "DATA_PATH" THEN EnvVals ELSE {"unset", "set"}
\* the key prefix of the configs file, which bot.py reads while it is imported
PrefixVals == {"missing", "present"}
\* the auto_repair_mismatched_clients key of the configs file
AutoRepairVals == {"missing", "true", "false"}

VARIABLES
    mainpc,          \* position of the process: import, start_web_server, site_start, run_bot, bot, finally, exited, replaced
    listener,        \* the web runner's listening socket: none, bound, released
    exc,             \* exception travelling through main()'s try: none, error, cancelled
    exitStatus,      \* -1 while the image runs, else the exit status of the process
    env,             \* os.environ restricted to the variables the bot reads
    clients,         \* the client names carried by TWITTER_TOKEN, in declared order
    configs,         \* the configs mapping loaded at import
    broken,          \* extension modules whose setup raises
    storeExists,     \* tracked_accounts.db exists under DATA_PATH
    records,         \* account -> client name of its stored record (NoRecord if none)
    pc,              \* task -> position of that on_ready task
    error,           \* task -> the exception that ended it, "none" otherwise
    invalid_clients, \* task -> its local variable of that name
    idx,             \* task -> position of its for loop over os.listdir('./cogs')
    slash,           \* task -> its local variable of that name: what bot.tree.sync() returns
    events,          \* task -> its calls and log lines
    loaded,          \* bot.extensions
    synced,          \* len(slash) as last logged at the end of on_ready, -1 before
    tree_on_error,   \* bot.tree.on_error: the library's default or on_tree_error
    loop_blocked,    \* the event loop is held by a task that does not yield
    lastResponse,    \* what the last request to the status page was answered
    tasks,           \* the command tasks that have not ended, a bag: two tasks may be at the same point
    cmd,             \* the command whose task ended last: its name and its argument
    cmd_error,       \* the error that command raised, "none" otherwise
    reply,           \* what was sent back to the operator for it
    warning,         \* what the error handler logged for it
    ncmds,           \* commands dispatched in this process image
    nready           \* ready events delivered after the first one

supervisor == <<mainpc, listener, exc, exitStatus>>
inputs == <<env, clients, configs, broken>>
store == <<storeExists, records>>
orch == <<pc, error, invalid_clients, idx, slash, events, loaded, synced,
          tree_on_error, loop_blocked>>
operator == <<tasks, cmd, cmd_error, reply, warning, ncmds, nready>>
vars == <<mainpc, listener, exc, exitStatus, env, clients, configs, broken,
          storeExists, records, pc, error, invalid_clients, idx, slash, events,
          loaded, synced, tree_on_error, loop_blocked, lastResponse,
          tasks, cmd, cmd_error, reply, warning, ncmds, nready>>

----------------------------------------------------------------------------
\* os.listdir('./cogs'): one file per extension module and a directory entry
\* that is not a .py file
listdir == [i \in 1..(NumExt + 1) |->
              IF i = 2 THEN [stem |-> 0, py |-> FALSE]
              ELSE [stem |-> (IF i = 1 THEN 1 ELSE i - 1), py |-> TRUE]]

\* filename.endswith('.py')
endswith_py(filename) == filename.py

\* the extensions load_all is asked to load
Discoverable == {listdir[i].stem : i \in {j \in 1..Len(listdir) : endswith_py(listdir[j])}}

\* the environments a process can have: TWITTER_TOKEN names clients exactly
\* when it is set
Environments ==
    {ec \in [e : [EnvNames -> EnvVals], c : ClientLists \cup {<< >>}] :
        /\ \A v \in EnvNames : ec.e[v] \in EnvValsOf(v)
        /\ (ec.e["TWITTER_TOKEN"] = "set") <=> (ec.c # << >>)}

\* load_dotenv() without override: a variable present in os.environ keeps its
\* value, an absent one takes the value the .env file gives it, if any
load_dotenv(e, c) ==
    {ec \in Environments :
        /\ \A v \in EnvNames : e[v] # "unset" => ec.e[v] = e[v]
        /\ e["TWITTER_TOKEN"] # "unset" => ec.c = c}

\* check_env(): every required variable is present and non-empty
check_env(e) == \A v \in EnvNames : e[v] = "set"

\* check_configs(configs): every required key is present with the expected kind
check_configs(cfg) ==
    /\ cfg.prefix = "present"
    /\ cfg.auto_repair_mismatched_clients \in {"true", "false"}

Range(s) == {s[i] : i \in 1..Len(s)}

\* the stored records, as (account, client) rows
Rows(recs) == {[acct |-> a, client |-> recs[a]] : a \in {b \in Accts : recs[b] # NoRecord}}

\* check_db(): the rows whose client is not among the configured ones
check_db(recs, cl) == {r \in Rows(recs) : r.client \notin Range(cl)}

\* a repair that takes the client declared last
auto_repair_mismatched_clients_last_client(recs, invalid, cl) ==
    [a \in Accts |-> IF \E r \in invalid : r.acct = a THEN cl[Len(cl)] ELSE recs[a]]

\* auto_repair_mismatched_clients(invalid): each invalid row gets the first
\* configured client
auto_repair_mismatched_clients(recs, invalid, cl) ==
    [a \in Accts |-> IF \E r \in invalid : r.acct = a THEN cl[1] ELSE recs[a]]

\* the count auto_repair_mismatched_clients returns: the records it changed
auto_repair_count(recs, invalid, cl) ==
    Cardinality({a \in Accts : auto_repair_mismatched_clients(recs, invalid, cl)[a] # recs[a]})

\* the store init_db() creates
init_db == [a \in Accts |-> NoRecord]

\* task r moves to position p
Goto(r, p) == pc' = [pc EXCEPT ![r] = p]

\* task r makes the calls and writes the log lines es
Log(r, es) == events' = [events EXCEPT ![r] = @ \o es]

\* e is among the calls and log lines of task r so far
Happened(r, e) == e \in Range(events[r])

\* an exception escapes task r of on_ready while it makes the calls es: the
\* task ends, the library logs the exception
Raise(r, kind, es) ==
    /\ Goto(r, "failed")
    /\ error' = [error EXCEPT ![r] = kind]
    /\ Log(r, es)

\* the event loop of asyncio.run(main()) is running the tasks of the client:
\* bot.start() has not returned, or main() is suspended in runner.cleanup()
Running == mainpc \in {"bot", "finally"}

\* task r of on_ready is at position p and the loop runs it
At(r, p) == Running /\ pc[r] = p

----------------------------------------------------------------------------
\* no command task has ended yet
NoCommand == [name |-> "none", arg |-> 0]

Stores ==
    {[exists |-> FALSE, recs |-> init_db]} \cup
    {[exists |-> TRUE, recs |-> r] : r \in [Accts -> ClientIds \cup {NoRecord}]}

\* the configs files a process image can find
Configs == [prefix : PrefixVals, auto_repair_mismatched_clients : AutoRepairVals]

\* what a process finds when it starts: environment, configs file and
\* extension modules
\* the extension modules whose setup raises: none, one of them, or all
BrokenSets == {{}, ExtNames} \cup {{e} : e \in ExtNames}

Inputs ==
    {i \in [ec : Environments, cfg : Configs, broken : BrokenSets] : TRUE}

Init ==
    /\ mainpc = "import"
    /\ listener = "none"
    /\ exc = "none"
    /\ exitStatus = -1
    /\ \E i \in Inputs :
         /\ env = i.ec.e
         /\ clients = i.ec.c
         /\ configs = i.cfg
         /\ broken = i.broken
    /\ \E st \in Stores : storeExists = st.exists /\ records = st.recs
    /\ pc = [r \in Tasks |-> "idle"]
    /\ error = [r \in Tasks |-> "none"]
    /\ invalid_clients = [r \in Tasks |-> {}]
    /\ idx = [r \in Tasks |-> 0]
    /\ slash = [r \in Tasks |-> {}]
    /\ events = [r \in Tasks |-> << >>]
    /\ loaded = {}
    /\ synced = -1
    /\ tree_on_error = "default"
    /\ loop_blocked = FALSE
    /\ lastResponse = "none"
    /\ tasks = EmptyBag
    /\ cmd = NoCommand
    /\ cmd_error = "none"
    /\ reply = "none"
    /\ warning = "none"
    /\ ncmds = 0
    /\ nready = 0

----------------------------------------------------------------------------
\* a wait that holds the thread, as time.sleep(30) would
backoff_blocks_loop_time_sleep == TRUE

\* await asyncio.sleep(30) suspends on_ready and leaves the loop to other tasks
backoff_blocks_loop == FALSE

\* lines 10-21 and 185-187: the module is imported (configs loaded,
\* load_dotenv(), the client built with configs['prefix']) and main() is run; a
\* configs mapping without the key ends the process there with KeyError
import_bot ==
    /\ mainpc = "import"
    /\ \E ec \in load_dotenv(env, clients) : env' = ec.e /\ clients' = ec.c
    /\ IF configs.prefix = "present"
       THEN mainpc' = "start_web_server" /\ UNCHANGED <<exc, exitStatus>>
       ELSE mainpc' = "exited" /\ exc' = "error" /\ exitStatus' = 1
    /\ UNCHANGED <<listener, configs, broken, store, orch, lastResponse>>
    /\ UNCHANGED operator

\* main(), line 177, and start_web_server, lines 61-67: runner.setup() returns
\* and site.start() binds the port, where it gives the loop back once more
\* before it returns; main() is not in its try yet
start_web_server ==
    /\ mainpc = "start_web_server"
    /\ \E ok \in BOOLEAN :
         IF ok
         THEN /\ listener' = "bound"
              /\ mainpc' = "site_start"
              /\ UNCHANGED <<exc, exitStatus>>
         ELSE \* the port cannot be bound: the exception leaves main()
              /\ mainpc' = "exited"
              /\ exc' = "error"
              /\ exitStatus' = 1
              /\ UNCHANGED listener
    /\ UNCHANGED <<inputs, store, orch, lastResponse>>
    /\ UNCHANGED operator

\* start_web_server, lines 67-69, and main(), lines 178-180: site.start()
\* returns, the runner is handed to main(), which enters its try and calls
\* run_bot()
site_start ==
    /\ mainpc = "site_start"
    /\ mainpc' = "run_bot"
    /\ UNCHANGED <<listener, exc, exitStatus, inputs, store, orch, lastResponse>>
    /\ UNCHANGED operator

\* run_bot(): bot.start(os.getenv('BOT_TOKEN')); a client that logs in
\* dispatches on_ready
run_bot ==
    /\ mainpc = "run_bot"
    /\ IF env["BOT_TOKEN"] = "set"
       THEN mainpc' = "bot" /\ Goto(1, "on_ready") /\ UNCHANGED exc
       ELSE mainpc' = "finally" /\ exc' = "error" /\ UNCHANGED pc
    /\ UNCHANGED <<listener, exitStatus, inputs, store, error, invalid_clients,
                   idx, slash, events, loaded, synced, tree_on_error,
                   loop_blocked, lastResponse>>
    /\ UNCHANGED operator

\* bot.start() returns: the client was closed; main() goes on to its finally
\* and is suspended in runner.cleanup()
bot_closed ==
    /\ mainpc = "bot"
    /\ mainpc' = "finally"
    /\ UNCHANGED <<listener, exc, exitStatus, inputs, store, orch, lastResponse>>
    /\ UNCHANGED operator

\* bot.start() raises
bot_error ==
    /\ mainpc = "bot"
    /\ mainpc' = "finally"
    /\ exc' = "error"
    /\ UNCHANGED <<listener, exitStatus, inputs, store, orch, lastResponse>>
    /\ UNCHANGED operator

\* SIGINT: asyncio.run() cancels main() where it is suspended.  In
\* start_web_server, before the try, the exception leaves main() and nothing
\* releases the port if site.start() had bound it; in the try it takes main()
\* to the finally; in runner.cleanup() it ends the cleanup where it stands,
\* released or not, and the process
cancel ==
    /\ mainpc \in {"start_web_server", "site_start", "run_bot", "bot", "finally"}
    /\ exc' = "cancelled"
    /\ IF mainpc \in {"run_bot", "bot"}
       THEN mainpc' = "finally" /\ UNCHANGED <<listener, exitStatus>>
       ELSE /\ mainpc' = "exited"
            /\ exitStatus' = 1
            /\ listener' \in (IF mainpc = "finally" THEN {listener, "released"} ELSE {listener})
    /\ UNCHANGED <<inputs, store, orch, lastResponse>>
    /\ UNCHANGED operator

\* main(): finally: runner.cleanup() returns, main() ends and asyncio.run()
\* ends the loop with the tasks left on it
cleanup ==
    /\ mainpc = "finally"
    /\ listener' = "released"
    /\ mainpc' = "exited"
    /\ exitStatus' = (IF exc = "none" THEN 0 ELSE 1)
    /\ UNCHANGED <<exc, inputs, store, orch, lastResponse>>
    /\ UNCHANGED operator

\* handle_web: the fixed status page
handle_web ==
    /\ mainpc \in {"site_start", "run_bot", "bot", "finally"}
    /\ listener = "bound"
    /\ ~loop_blocked
    /\ lastResponse' = "Bot is running!"
    /\ UNCHANGED <<supervisor, inputs, store, orch>>
    /\ UNCHANGED operator

----------------------------------------------------------------------------
\* on_ready, lines 78-79: the store file is looked up under DATA_PATH and, when
\* it is missing, init_db() is called, in which on_ready is suspended
on_ready_init(r) ==
    /\ At(r, "on_ready")
    /\ IF env["DATA_PATH"] = "unset"
       THEN \* os.path.join(None, ...)
            Raise(r, "TypeError", <<"isfile">>)
       ELSE IF storeExists
       THEN /\ Goto(r, "check_env")
            /\ Log(r, <<"isfile">>)
            /\ UNCHANGED error
       ELSE /\ Goto(r, "init_db")
            /\ Log(r, <<"init_db">>)
            /\ UNCHANGED error
    /\ UNCHANGED <<supervisor, inputs, store, invalid_clients, idx, slash, loaded,
                   synced, tree_on_error, loop_blocked, lastResponse>>
    /\ UNCHANGED operator

\* on_ready, line 79: init_db() returns, having created the store unless
\* another task created it in the meantime, or it raises
on_ready_init_db(r) ==
    /\ At(r, "init_db")
    /\ \E ok \in BOOLEAN :
         IF ok
         THEN /\ storeExists' = TRUE
              /\ records' = (IF storeExists THEN records ELSE init_db)
              /\ Goto(r, "check_env")
              /\ UNCHANGED <<error, events>>
         ELSE Raise(r, "StoreFailure", << >>) /\ UNCHANGED store
    /\ UNCHANGED <<supervisor, inputs, invalid_clients, idx, slash, loaded,
                   synced, tree_on_error, loop_blocked, lastResponse>>
    /\ UNCHANGED operator

\* on_ready, lines 81-85: check_upgrade(), check_env() and the start of the wait
on_ready_check_env(r) ==
    /\ At(r, "check_env")
    /\ IF check_env(env)
       THEN /\ Goto(r, "check_configs")
            /\ Log(r, <<"check_env">>)
            /\ UNCHANGED loop_blocked
       ELSE /\ Goto(r, "env_sleep")
            /\ Log(r, <<"check_env", "warn_env", "sleep">>)
            /\ loop_blocked' = backoff_blocks_loop
    /\ UNCHANGED <<supervisor, inputs, store, error, invalid_clients, idx,
                   slash, loaded, synced, tree_on_error, lastResponse>>
    /\ UNCHANGED operator

\* on_ready, lines 85-86: the wait is over, load_dotenv()
on_ready_load_dotenv(r) ==
    /\ At(r, "env_sleep")
    /\ \E ec \in load_dotenv(env, clients) : env' = ec.e /\ clients' = ec.c
    /\ Goto(r, "check_configs")
    /\ Log(r, <<"load_dotenv">>)
    /\ loop_blocked' = FALSE
    /\ UNCHANGED <<supervisor, configs, broken, store, error, invalid_clients,
                   idx, slash, loaded, synced, tree_on_error, lastResponse>>
    /\ UNCHANGED operator

\* on_ready, lines 88-90: check_configs(configs) and the start of the wait
on_ready_check_configs(r) ==
    /\ At(r, "check_configs")
    /\ IF check_configs(configs)
       THEN /\ Goto(r, "check_db")
            /\ Log(r, <<"check_configs">>)
            /\ UNCHANGED loop_blocked
       ELSE /\ Goto(r, "configs_sleep")
            /\ Log(r, <<"check_configs", "warn_configs", "sleep">>)
            /\ loop_blocked' = backoff_blocks_loop
    /\ UNCHANGED <<supervisor, inputs, store, error, invalid_clients, idx,
                   slash, loaded, synced, tree_on_error, lastResponse>>
    /\ UNCHANGED operator

\* on_ready, line 91: the wait is over and os.execv replaces the process image
\* where it stands, or it raises (the interpreter cannot be executed) and
\* on_ready ends there, in the image that goes on
on_ready_execv(r) ==
    /\ At(r, "configs_sleep")
    /\ loop_blocked' = FALSE
    /\ \E ok \in BOOLEAN :
         IF ok
         THEN /\ mainpc' = "replaced"
              /\ Goto(r, "execv")
              /\ Log(r, <<"execv">>)
              /\ UNCHANGED error
         ELSE Raise(r, "OSError", <<"execv">>) /\ UNCHANGED mainpc
    /\ UNCHANGED <<listener, exc, exitStatus, inputs, store, invalid_clients,
                   idx, slash, loaded, synced, tree_on_error, lastResponse>>
    /\ UNCHANGED operator

\* on_ready, lines 93-102: check_db() and the choice of repairing
on_ready_check_db(r) ==
    /\ At(r, "check_db")
    /\ \E ok \in BOOLEAN :
         IF ~ok
         THEN Raise(r, "StoreFailure", <<"check_db">>) /\ UNCHANGED invalid_clients
         ELSE LET invalid == check_db(records, clients) IN
              /\ invalid_clients' = [invalid_clients EXCEPT ![r] = invalid]
              /\ UNCHANGED error
              /\ IF invalid # {}
                 THEN IF configs.auto_repair_mismatched_clients = "true"
                      THEN /\ Goto(r, "repair")
                           /\ Log(r, <<"check_db", "warn_db">>)
                      ELSE /\ Goto(r, "update_presence")
                           /\ Log(r, <<"check_db", "warn_db", "warn_no_repair">>)
                 ELSE /\ Goto(r, "update_presence")
                      /\ Log(r, <<"check_db", "info_db_passed">>)
    /\ UNCHANGED <<supervisor, inputs, store, idx, slash, loaded, synced,
                   tree_on_error, loop_blocked, lastResponse>>
    /\ UNCHANGED operator

\* on_ready, lines 97-98: auto_repair_mismatched_clients(invalid_clients)
on_ready_repair(r) ==
    /\ At(r, "repair")
    /\ IF clients = << >>
       THEN \* there is no first client name to repair with
            Raise(r, "IndexError", <<"repair">>) /\ UNCHANGED records
       ELSE \E ok \in BOOLEAN :
              IF ok
              THEN /\ records' = auto_repair_mismatched_clients(records, invalid_clients[r], clients)
                   /\ Goto(r, "update_presence")
                   /\ Log(r, <<"repair", "info_repaired">>)
                   /\ UNCHANGED error
              ELSE Raise(r, "StoreFailure", <<"repair">>) /\ UNCHANGED records
    /\ UNCHANGED <<supervisor, inputs, storeExists, invalid_clients, idx, slash,
                   loaded, synced, tree_on_error, loop_blocked, lastResponse>>
    /\ UNCHANGED operator

\* on_ready, lines 104-107: update_presence(bot), which reads the store and may
\* raise, then the tree's error handler and the directory listing
on_ready_update_presence(r) ==
    /\ At(r, "update_presence")
    /\ \E ok \in BOOLEAN :
         IF ok
         THEN /\ Goto(r, "load_extension")
              /\ idx' = [idx EXCEPT ![r] = 1]
              /\ tree_on_error' = "on_tree_error"
              /\ Log(r, <<"update_presence">>)
              /\ UNCHANGED error
         ELSE Raise(r, "StoreFailure", <<"update_presence">>)
              /\ UNCHANGED <<idx, tree_on_error>>
    /\ UNCHANGED <<supervisor, inputs, store, invalid_clients, slash, loaded,
                   synced, loop_blocked, lastResponse>>
    /\ UNCHANGED operator

\* on_ready, lines 107-109: one turn of the loop over the listing
on_ready_load_extension(r) ==
    /\ At(r, "load_extension")
    /\ idx[r] <= Len(listdir)
    /\ LET filename == listdir[idx[r]] IN
       IF ~endswith_py(filename)
       THEN idx' = [idx EXCEPT ![r] = @ + 1] /\ UNCHANGED <<pc, error, loaded, events>>
       ELSE IF filename.stem \in loaded
       THEN Raise(r, "ExtensionAlreadyLoaded", <<"load_extension">>)
            /\ UNCHANGED <<idx, loaded>>
       ELSE IF filename.stem \in broken
       THEN Raise(r, "ExtensionFailed", <<"load_extension">>)
            /\ UNCHANGED <<idx, loaded>>
       ELSE /\ loaded' = loaded \cup {filename.stem}
            /\ idx' = [idx EXCEPT ![r] = @ + 1]
            /\ Log(r, <<"load_extension">>)
            /\ UNCHANGED <<pc, error>>
    /\ UNCHANGED <<supervisor, inputs, store, invalid_clients, slash, synced,
                   tree_on_error, loop_blocked, lastResponse>>
    /\ UNCHANGED operator

\* on_ready, lines 110-111: the loop is over; the online line, and
\* bot.tree.sync() is called: it builds its list of application commands, one
\* per extension loaded by then, and on_ready is suspended in its request
on_ready_online(r) ==
    /\ At(r, "load_extension")
    /\ idx[r] > Len(listdir)
    /\ Goto(r, "sync")
    /\ slash' = [slash EXCEPT ![r] = loaded]
    /\ Log(r, <<"info_online", "sync">>)
    /\ UNCHANGED <<supervisor, inputs, store, error, invalid_clients, idx,
                   loaded, synced, tree_on_error, loop_blocked, lastResponse>>
    /\ UNCHANGED operator

\* on_ready, lines 111-112: the request of bot.tree.sync() returns, and the
\* summary line counts its result, or it raises, and on_ready ends there
on_ready_sync(r) ==
    /\ At(r, "sync")
    /\ \E ok \in BOOLEAN :
         IF ok
         THEN /\ synced' = Cardinality(slash[r])
              /\ Goto(r, "done")
              /\ Log(r, <<"info_synced">>)
              /\ UNCHANGED error
         ELSE /\ Goto(r, "failed")
              /\ error' = [error EXCEPT ![r] = "HTTPException"]
              /\ UNCHANGED <<synced, events>>
    /\ UNCHANGED <<supervisor, inputs, store, invalid_clients, idx, slash,
                   loaded, tree_on_error, loop_blocked, lastResponse>>
    /\ UNCHANGED operator

\* the image os.execv started: it inherits the environment, finds the configs
\* file as it is by then, and starts with the import of the module, over the
\* store and the extension modules the old image left
new_image ==
    /\ mainpc = "replaced"
    /\ mainpc' = "import"
    /\ listener' = "none"
    /\ exc' = "none"
    /\ exitStatus' = -1
    /\ configs' \in Configs
    /\ pc' = [r \in Tasks |-> "idle"]
    /\ error' = [r \in Tasks |-> "none"]
    /\ invalid_clients' = [r \in Tasks |-> {}]
    /\ idx' = [r \in Tasks |-> 0]
    /\ slash' = [r \in Tasks |-> {}]
    /\ events' = [r \in Tasks |-> << >>]
    /\ loaded' = {}
    /\ synced' = -1
    /\ tree_on_error' = "default"
    /\ loop_blocked' = FALSE
    /\ lastResponse' = "none"
    /\ tasks' = EmptyBag
    /\ cmd' = NoCommand
    /\ cmd_error' = "none"
    /\ reply' = "none"
    /\ warning' = "none"
    /\ ncmds' = 0
    /\ nready' = 0
    /\ UNCHANGED <<env, clients, broken, store>>

\* lines 76-77: the client delivers ready again (it lost its session and
\* could not resume it) and the library starts one more on_ready task, whatever
\* the tasks before it are doing
on_ready_again ==
    /\ mainpc = "bot"
    /\ nready < MaxReady
    /\ nready' = nready + 1
    /\ Goto(nready + 2, "on_ready")
    /\ UNCHANGED <<supervisor, inputs, store, error, invalid_clients, idx, slash,
                   events, loaded, synced, tree_on_error, loop_blocked,
                   lastResponse, tasks, cmd, cmd_error, reply, warning, ncmds>>

----------------------------------------------------------------------------
\* The operator's commands.  The library starts one task per command as the
\* message arrives, whatever the tasks before it are doing; a task gives the
\* loop back at each await.

\* the client is connected and takes a command
Dispatching == mainpc = "bot" /\ ~loop_blocked /\ ncmds < MaxCmds

\* the command tasks that have not ended
InFlight == BagToSet(tasks)

\* a command task is started and runs as far as its first await, where it is
\* suspended at position p
Start(name, arg, p, err, content) ==
    /\ tasks' = tasks (+) SetToBag({[name |-> name, arg |-> arg, pc |-> p,
                                      error |-> err, raw |-> content]})
    /\ ncmds' = ncmds + 1
    /\ UNCHANGED <<cmd, cmd_error, reply, warning>>

\* the command raises err before its first await and the library calls
\* on_command_error: lines 168-171, as far as the await of ctx.send(error); for
\* a command that does not exist the handler returns at once
Failed(name, arg, err) ==
    IF err = "CommandNotFound"
    THEN /\ cmd' = [name |-> name, arg |-> arg]
         /\ cmd_error' = err
         /\ reply' = "none"
         /\ warning' = "none"
         /\ ncmds' = ncmds + 1
         /\ UNCHANGED tasks
    ELSE Start(name, arg, "handler", err, << >>)

\* the command has done its work and calls ctx.send, where it is suspended
Done(name, arg) == Start(name, arg, "send", "none", << >>)

\* task t goes on to its next await, where it is u
Resume(t, u) == tasks' = (tasks (-) SetToBag({t})) (+) SetToBag({u})

\* task t raises err after an await: the library calls on_command_error, which
\* is suspended in ctx.send(error)
Raised(t, err) ==
    Resume(t, [t EXCEPT !.pc = "handler", !.error = err, !.raw = << >>])

\* task t ends, having sent sent to the operator and logged logged
End(t, sent, logged) ==
    /\ tasks' = tasks (-) SetToBag({t})
    /\ cmd' = [name |-> t.name, arg |-> t.arg]
    /\ cmd_error' = t.error
    /\ reply' = sent
    /\ warning' = logged

\* what each command sends when it has done its work
Message(name) ==
    CASE name = "load" -> "Loaded"
      [] name = "unload" -> "Un - Loaded"
      [] name = "reload" -> "Re - Loaded"
      [] name = "download_log" -> "FILE:console.log"
      [] name = "download_data" -> "FILE:tracked_accounts.db"
      [] name = "upload_data" -> "successfully uploaded data"

\* load, lines 115-119 as far as the await of ctx.send; the arguments are not
\* looked at when the is_owner check fails
load ==
    /\ Dispatching
    /\ \E owner \in BOOLEAN :
         IF ~owner
         THEN Failed("load", 0, "NotOwner") /\ UNCHANGED loaded
         ELSE \E extension \in ExtNames :
                IF extension \in loaded
                THEN Failed("load", extension, "ExtensionAlreadyLoaded") /\ UNCHANGED loaded
                ELSE IF extension \in broken
                THEN Failed("load", extension, "ExtensionFailed") /\ UNCHANGED loaded
                ELSE /\ loaded' = loaded \cup {extension}
                     /\ Done("load", extension)
    /\ UNCHANGED <<supervisor, inputs, store, pc, error, invalid_clients, idx,
                   slash, events, synced, tree_on_error, loop_blocked,
                   lastResponse, nready>>

\* unload, lines 122-126 as far as the await of ctx.send
unload ==
    /\ Dispatching
    /\ \E owner \in BOOLEAN :
         IF ~owner
         THEN Failed("unload", 0, "NotOwner") /\ UNCHANGED loaded
         ELSE \E extension \in ExtNames :
                IF extension \notin loaded
                THEN Failed("unload", extension, "ExtensionNotLoaded") /\ UNCHANGED loaded
                ELSE /\ loaded' = loaded \ {extension}
                     /\ Done("unload", extension)
    /\ UNCHANGED <<supervisor, inputs, store, pc, error, invalid_clients, idx,
                   slash, events, synced, tree_on_error, loop_blocked,
                   lastResponse, nready>>

\* reload, lines 129-133 as far as the await of ctx.send: bot.reload_extension
\* refuses a name that is not loaded and puts the old module back when the new
\* load fails
reload ==
    /\ Dispatching
    /\ \E owner \in BOOLEAN :
         IF ~owner
         THEN Failed("reload", 0, "NotOwner")
         ELSE \E extension \in ExtNames :
                IF extension \notin loaded
                THEN Failed("reload", extension, "ExtensionNotLoaded")
                ELSE IF extension \in broken
                THEN Failed("reload", extension, "ExtensionFailed")
                ELSE Done("reload", extension)
    /\ UNCHANGED <<supervisor, inputs, store, orch, lastResponse, nready>>

\* download_log, lines 136-139 as far as the await of ctx.send: discord.File
\* opens console.log, which is there or not
download_log ==
    /\ Dispatching
    /\ \E owner \in BOOLEAN, isfile \in BOOLEAN :
         IF ~owner
         THEN Failed("download_log", 0, "NotOwner")
         ELSE IF ~isfile
         THEN Failed("download_log", 0, "FileNotFoundError")
         ELSE Done("download_log", 0)
    /\ UNCHANGED <<supervisor, inputs, store, orch, lastResponse, nready>>

\* download_data, lines 143-146 as far as the await of ctx.send: discord.File
\* opens the store file under DATA_PATH
download_data ==
    /\ Dispatching
    /\ \E owner \in BOOLEAN :
         IF ~owner
         THEN Failed("download_data", 0, "NotOwner")
         ELSE IF env["DATA_PATH"] = "unset"
         THEN \* os.path.join(None, ...)
              Failed("download_data", 0, "TypeError")
         ELSE IF ~storeExists
         THEN Failed("download_data", 0, "FileNotFoundError")
         ELSE Done("download_data", 0)
    /\ UNCHANGED <<supervisor, inputs, store, orch, lastResponse, nready>>

\* the store files an operator may attach
UploadContents == {[a \in Accts |-> "X"], [a \in Accts |-> "A"]}

\* ctx.message.attachments: each attachment has a file name, which ends in
\* '.db' or not, and a content
Attachments ==
    LET c1 == [a \in Accts |-> "X"]
        c2 == [a \in Accts |-> "A"]
    IN {<< >>,
        <<[db |-> FALSE, data |-> c1]>>,
        <<[db |-> TRUE, data |-> c1]>>,
        <<[db |-> TRUE, data |-> c2]>>,
        <<[db |-> FALSE, data |-> c1], [db |-> TRUE, data |-> c2]>>,
        <<[db |-> TRUE, data |-> c1], [db |-> TRUE, data |-> c2]>>}

\* attachment.filename[-3:] == '.db'
is_db(attachment) == attachment.db

\* upload_data, lines 150-153 as far as the await of read(): the first
\* attachment whose name ends in '.db' is picked; the task keeps the number of
\* such attachments of its message
upload_data ==
    /\ Dispatching
    /\ \E attachments \in Attachments, owner \in BOOLEAN :
         LET dbs == SelectSeq(attachments, is_db) IN
         IF ~owner
         THEN Failed("upload_data", Len(dbs), "NotOwner")
         ELSE IF dbs = << >>
         THEN \* [...][0] of an empty list
              Failed("upload_data", Len(dbs), "IndexError")
         ELSE Start("upload_data", Len(dbs), "read", "none", dbs[1].data)
    /\ UNCHANGED <<supervisor, inputs, store, orch, lastResponse, nready>>

\* upload_data, lines 153-156 as far as the await of ctx.send: read() returns
\* the content, or raises; the store file is opened for writing, which empties
\* it, or open raises (no such directory, no permission); the content is
\* written over the store, or the write raises (no space left) and leaves the
\* file empty
upload_data_write ==
    /\ Running
    /\ \E t \in InFlight :
         /\ t.pc = "read"
         /\ \E outcome \in {"read raises", "open raises", "write raises", "written"} :
              IF outcome = "read raises"
              THEN Raised(t, "HTTPException") /\ UNCHANGED store
              ELSE IF env["DATA_PATH"] = "unset"
              THEN \* os.path.join(None, ...)
                   Raised(t, "TypeError") /\ UNCHANGED store
              ELSE IF outcome = "open raises"
              THEN Raised(t, "OSError") /\ UNCHANGED store
              ELSE IF outcome = "write raises"
              THEN /\ storeExists' = TRUE
                   /\ records' = [a \in Accts |-> NoRecord]
                   /\ Raised(t, "OSError")
              ELSE /\ storeExists' = TRUE
                   /\ records' = t.raw
                   /\ Resume(t, [t EXCEPT !.pc = "send", !.raw = << >>])
    /\ UNCHANGED <<supervisor, inputs, orch, lastResponse, cmd, cmd_error,
                   reply, warning, ncmds, nready>>

\* the await of ctx.send in lines 119, 126, 133, 139, 146 and 156: the message
\* is sent and the command ends (message.delete with a delay only starts a
\* task), or ctx.send raises and the exception goes to on_command_error
send ==
    /\ Running
    /\ \E t \in InFlight :
         /\ t.pc = "send"
         /\ \E ok \in BOOLEAN :
              IF ok
              THEN End(t, Message(t.name), "none")
              ELSE Raised(t, "Forbidden") /\ UNCHANGED <<cmd, cmd_error, reply, warning>>
    /\ UNCHANGED <<supervisor, inputs, store, orch, lastResponse, ncmds, nready>>

\* on_command_error, lines 170-172: ctx.send(error) returns and the warning is
\* logged, or it raises and on_command_error ends without the log line
on_command_error ==
    /\ Running
    /\ \E t \in InFlight :
         /\ t.pc = "handler"
         /\ \E ok \in BOOLEAN :
              IF ok
              THEN End(t, t.error, t.error)
              ELSE End(t, "none", "none")
    /\ UNCHANGED <<supervisor, inputs, store, orch, lastResponse, ncmds, nready>>

\* a message with the prefix that names no command
command_not_found ==
    /\ Dispatching
    /\ Failed("unknown", 0, "CommandNotFound")
    /\ UNCHANGED <<supervisor, inputs, store, orch, lastResponse, nready>>

\* a slash command of a loaded extension raises: the error goes to
\* bot.tree.on_error, which is on_tree_error once on_ready has passed line 106
\* and the library's own before that (it logs at error level and sends nothing)
slash_command_error ==
    /\ Dispatching
    /\ loaded # {}
    /\ IF tree_on_error = "on_tree_error"
       THEN Start("slash", 0, "tree_handler", "AppCommandError", << >>)
       ELSE /\ cmd' = [name |-> "slash", arg |-> 0]
            /\ cmd_error' = "AppCommandError"
            /\ reply' = "none"
            /\ warning' = "none"
            /\ ncmds' = ncmds + 1
            /\ UNCHANGED tasks
    /\ UNCHANGED <<supervisor, inputs, store, orch, lastResponse, nready>>

\* on_tree_error, lines 160-163: send_message(error) returns and the warning is
\* logged, or it raises (the command had responded already, the interaction
\* has expired) and on_tree_error ends without the log line
on_tree_error ==
    /\ Running
    /\ \E t \in InFlight :
         /\ t.pc = "tree_handler"
         /\ \E ok \in BOOLEAN :
              IF ok
              THEN End(t, t.error, t.error)
              ELSE End(t, "none", "none")
    /\ UNCHANGED <<supervisor, inputs, store, orch, lastResponse, ncmds, nready>>

on_ready ==
    \E r \in Tasks :
        \/ on_ready_init(r)
        \/ on_ready_init_db(r)
        \/ on_ready_check_env(r)
        \/ on_ready_load_dotenv(r)
        \/ on_ready_check_configs(r)
        \/ on_ready_execv(r)
        \/ on_ready_check_db(r)
        \/ on_ready_repair(r)
        \/ on_ready_update_presence(r)
        \/ on_ready_load_extension(r)
        \/ on_ready_online(r)
        \/ on_ready_sync(r)

main == import_bot \/ start_web_server \/ site_start \/ run_bot \/ cleanup \/ new_image

Next ==
    \/ main
    \/ on_ready
    \/ bot_closed
    \/ bot_error
    \/ cancel
    \/ handle_web

Spec == Init /\ [][Next]_vars

commands ==
    \/ load
    \/ unload
    \/ reload
    \/ download_log
    \/ download_data
    \/ upload_data
    \/ upload_data_write
    \/ send
    \/ on_command_error
    \/ command_not_found
    \/ slash_command_error
    \/ on_tree_error

\* images whose configs file has the key prefix and whose environment carries
\* the bot's token and names the client A, with no broken extension module or
\* one, over a store that is missing or is one of the files the operator may
\* upload
AdminInit ==
    /\ Init
    /\ configs.prefix = "present"
    /\ env["BOT_TOKEN"] = "set"
    /\ clients = <<"A">>
    /\ broken \in {{}, {NumExt}}
    /\ storeExists => records \in UploadContents

\* the bootstrap with an operator sending commands, for as long as the client
\* runs
AdminNext == import_bot \/ start_web_server \/ site_start \/ run_bot \/ on_ready \/ commands
AdminSpec == AdminInit /\ [][AdminNext]_vars

\* the images of AdminInit whose extension modules all load
UploadInit == AdminInit /\ broken = {}

\* the bootstrap with an operator who sends nothing but upload_data
UploadNext ==
    \/ import_bot
    \/ start_web_server
    \/ site_start
    \/ run_bot
    \/ on_ready
    \/ upload_data
    \/ upload_data_write
    \/ send
    \/ on_command_error
UploadSpec == UploadInit /\ [][UploadNext]_vars

\* the bootstrap with a client that delivers ready more than once, for as long
\* as the client runs
ReadyNext ==
    import_bot \/ start_web_server \/ site_start \/ run_bot \/ on_ready \/ on_ready_again
ReadySpec == AdminInit /\ [][ReadyNext]_vars

\* the event loop runs every task that is ready and fires every timer that is
\* due; nothing obliges the client to end or a request to arrive
FairSpec == Spec /\ WF_vars(main) /\ WF_vars(on_ready)

TypeOK ==
    /\ mainpc \in {"import", "start_web_server", "site_start", "run_bot", "bot", "finally",
                  "exited", "replaced"}
    /\ listener \in {"none", "bound", "released"}
    /\ exitStatus \in {-1, 0, 1}
    /\ \A r \in Tasks : idx[r] \in 0..(Len(listdir) + 1)
    /\ loaded \subseteq ExtNames
    /\ IsABag(tasks) /\ BagCardinality(tasks) <= ncmds /\ ncmds <= MaxCmds
    /\ \A t \in InFlight : t.pc \in {"read", "send", "handler", "tree_handler"}
    /\ tree_on_error \in {"default", "on_tree_error"}

----------------------------------------------------------------------------
\* Properties

\* how often task r has made the call, or written the log line, e
CountIn(r, e) == Cardinality({i \in 1..Len(events[r]) : events[r][i] = e})
\* how often the tasks of the image have, taken together
Count(e) ==
    Cardinality({ri \in UNION {{<<r, i>> : i \in 1..Len(events[r])} : r \in Tasks} :
                    events[ri[1]][ri[2]] = e})
LastEvents(r, n) == SubSeq(events[r], Len(events[r]) - n + 1, Len(events[r]))

\* the bootstrap sequence has run to its end
Ready == \E r \in Tasks : pc[r] = "done"
\* the process image is gone: it exited or was replaced by os.execv
ImageEnded == mainpc \in {"exited", "replaced"}
\* the loop of task r over the extensions is over, by its end or by an exception
LoadAllFinished(r) ==
    \/ pc[r] \in {"sync", "done"}
    \/ pc[r] = "failed" /\ error[r] \in {"ExtensionFailed", "ExtensionAlreadyLoaded", "HTTPException"}
PartialFailure == broken \cap Discoverable # {} /\ Discoverable \ broken # {}
Operational == "Bot is running!"
\* the command tasks a dispatch step has started (one, or none when the command
\* ended before its first await)
Started == {t \in InFlight' : ncmds' = ncmds + 1 /\ CopiesIn(t, tasks') > CopiesIn(t, tasks)}

\* C1: every execution eventually reaches READY or ends the process.
C1_StartupConvergence == <>(Ready \/ ImageEnded)

\* C2: when check_env() fails, the environment stage consists of one warning,
\* one wait, one re-read and one second check, after which the configuration
\* check is next.
C2_EnvRetryOnce ==
    \A r \in Tasks :
        (pc[r] = "check_configs" /\ Happened(r, "warn_env")) =>
            /\ CountIn(r, "warn_env") = 1
            /\ CountIn(r, "sleep") = 1
            /\ CountIn(r, "load_dotenv") = 1
            /\ CountIn(r, "check_env") = 2
            /\ LastEvents(r, 5) = <<"check_env", "warn_env", "sleep", "load_dotenv", "check_env">>

\* C3: with a configuration that fails check_configs the image never gets to
\* the store check, the repair, an extension load or READY; once the warning is
\* logged on_ready is in its wait or the image has been replaced, which happens
\* after exactly one wait, and the image that replaces it starts from INIT.
C3_ConfigFailureRestarts ==
    /\ [](~check_configs(configs) =>
            /\ \A r \in Tasks :
                 /\ pc[r] \notin {"check_db", "repair", "update_presence",
                                  "load_extension", "sync", "done"}
                 /\ ~Happened(r, "check_db") /\ ~Happened(r, "repair")
                 /\ ~Happened(r, "load_extension") /\ ~Happened(r, "sync")
            /\ loaded = {} /\ synced = -1)
    /\ [](\A r \in Tasks :
            Happened(r, "warn_configs") =>
                ~check_configs(configs) /\ pc[r] \in {"configs_sleep", "execv"})
    /\ [](mainpc = "replaced" =>
            \E r \in Tasks :
                /\ pc[r] = "execv"
                /\ LastEvents(r, 4) = <<"check_configs", "warn_configs", "sleep", "execv">>
                /\ CountIn(r, "warn_configs") = 1 /\ CountIn(r, "execv") = 1)
    /\ [][mainpc = "replaced" =>
            /\ mainpc' = "import" /\ listener' = "none"
            /\ \A r \in Tasks : pc'[r] = "idle" /\ events'[r] = << >>
            /\ loaded' = {} /\ synced' = -1]_vars
    /\ [][mainpc' = "replaced" =>
            /\ \E r \in Tasks : pc[r] = "configs_sleep" /\ pc'[r] = "execv"
            /\ ~check_configs(configs)]_vars

\* C4: when load_all is over, every extension that does not fail is loaded.
C4_LoadAllIsolatesFailures ==
    \A r \in Tasks : LoadAllFinished(r) => loaded = Discoverable \ broken

\* C5: when some but not all extensions fail, the bootstrap still reaches READY
\* and the summary counts the extensions that loaded.
C5_PartialFailureStillReady ==
    ((\E r \in Tasks : pc[r] = "load_extension") /\ PartialFailure)
        ~> ((Ready /\ synced = Cardinality(Discoverable \ broken)) \/ mainpc # "bot")

\* C6: whenever the image ends after the listener was bound, the listener has
\* been released.
C6_ListenerReleasedOnEveryExit ==
    (ImageEnded /\ listener # "none") => listener = "released"

\* C7: from the start of on_ready on, while the client runs, the status page
\* is bound and can be served, the waits included.
C7_StatusServiceNeverBlocked ==
    (mainpc = "bot" /\ \E r \in Tasks : pc[r] # "idle") =>
        /\ listener = "bound"
        /\ ~loop_blocked
        /\ ENABLED handle_web

C7_Witness ==
    /\ mainpc = "bot" /\ \E r \in Tasks : pc[r] \in {"env_sleep", "configs_sleep"}
    /\ lastResponse = Operational /\ ENABLED handle_web

\* C8: a store failure during the bootstrap reaches main(): from then on the
\* process is shutting down or gone, never READY, and once gone it has released
\* the listener and exited with a non-zero status.
C8_StoreFailureTerminates ==
    (\E r \in Tasks : error[r] = "StoreFailure") =>
        /\ mainpc \in {"finally", "exited"}
        /\ exc = "error"
        /\ ~Ready
        /\ mainpc = "exited" => (exitStatus # 0 /\ listener = "released")

\* C9: the status page says "operational" only once the bootstrap is complete;
\* before that it says "starting".
C9_StatusFollowsReadiness ==
    /\ lastResponse = Operational => Ready
    /\ (lastResponse # "none" /\ ~Ready) => lastResponse = "starting"

\* C10: repair is called exactly when check_db() found something and the policy
\* is on; the store changes only in that call; and once check_db() has returned,
\* whatever it found, on_ready goes on to the extensions: nothing but a failure
\* of the store ends it on the way.
C10_RepairIffInvalidAndPolicy ==
    /\ [](\A r \in Tasks :
            /\ Happened(r, "repair") =>
                 invalid_clients[r] # {} /\ configs.auto_repair_mismatched_clients = "true"
            /\ (Happened(r, "update_presence") /\ invalid_clients[r] # {}
                    /\ configs.auto_repair_mismatched_clients = "true")
                 => Happened(r, "repair")
            /\ Happened(r, "warn_no_repair") <=>
                 (Happened(r, "check_db") /\ invalid_clients[r] # {}
                    /\ configs.auto_repair_mismatched_clients # "true"))
    /\ [][records' # records =>
            \E r \in Tasks :
                /\ pc[r] = "repair" /\ pc'[r] = "update_presence"
                /\ configs.auto_repair_mismatched_clients = "true"
                /\ invalid_clients[r] = check_db(records, clients)
                /\ check_db(records', clients) = {}]_vars
    /\ [][\A r \in Tasks :
            /\ (pc[r] = "check_db" /\ pc'[r] # pc[r] /\ error'[r] # "StoreFailure") =>
                 /\ invalid_clients'[r] = check_db(records, clients)
                 /\ pc'[r] = (IF invalid_clients'[r] # {}
                                  /\ configs.auto_repair_mismatched_clients = "true"
                              THEN "repair" ELSE "update_presence")
            /\ (pc[r] = "repair" /\ pc'[r] # pc[r] /\ error'[r] # "StoreFailure") =>
                 pc'[r] = "update_presence"
            /\ (pc[r] = "update_presence" /\ pc'[r] # pc[r] /\ error'[r] # "StoreFailure") =>
                 pc'[r] = "load_extension"]_vars

\* C11: with no other task writing the store, the repair is applied to what
\* check_db() returns for the store as it is; it leaves nothing for a second
\* check_db() to find, gives every repaired record the first configured client,
\* changes as many records as were invalid, and leaves the valid ones alone.
C11_RepairConverges ==
    [][\A r \in Tasks :
         (pc[r] = "repair" /\ Happened(r, "info_repaired")') =>
            /\ invalid_clients[r] = check_db(records, clients)
            /\ check_db(records', clients) = {}
            /\ \A row \in invalid_clients[r] : records'[row.acct] = clients[1]
            /\ auto_repair_count(records, invalid_clients[r], clients)
                 = Cardinality(invalid_clients[r])
            /\ Cardinality({a \in Accts : records'[a] # records[a]})
                 = Cardinality(invalid_clients[r])
            /\ \A a \in Accts :
                 (\A row \in invalid_clients[r] : row.acct # a) => records'[a] = records[a]]_vars

C11_Witness ==
    \E r \in Tasks :
        /\ Happened(r, "info_repaired") /\ invalid_clients[r] # {}
        /\ check_db(records, clients) = {}
        /\ \E a \in Accts : records[a] = clients[1]
        /\ \E a \in Accts : records[a] \notin {NoRecord, clients[1]}

\* C12: when the owner's reload of an extension whose module loads has run as
\* far as its first await, the extension is loaded, whether or not it was
\* loaded before.
C12_ReloadBestEffort ==
    [][\A t \in Started :
         (t.name = "reload" /\ t.error # "NotOwner" /\ t.arg \notin broken)
            => t.arg \in loaded']_vars

\* the stage an event belongs to; 0 for the wait, which two stages share.
\* presence is the stage the presence is published in.
StageOf(e, presence) ==
    CASE e \in {"isfile", "init_db"} -> 1
      [] e \in {"check_env", "warn_env", "load_dotenv"} -> 2
      [] e \in {"check_configs", "warn_configs", "execv"} -> 3
      [] e \in {"check_db", "warn_db", "warn_no_repair", "info_db_passed",
                "repair", "info_repaired"} -> 4
      [] e = "update_presence" -> presence
      [] e = "load_extension" -> 6
      [] e \in {"info_online", "sync", "info_synced"} -> 7
      [] OTHER -> 0

\* the calls and log lines of on_ready
Events ==
    {"isfile", "init_db", "check_env", "warn_env", "sleep", "load_dotenv",
     "check_configs", "warn_configs", "execv", "check_db", "warn_db",
     "warn_no_repair", "info_db_passed", "repair", "info_repaired",
     "update_presence", "load_extension", "info_online", "sync", "info_synced"}

\* the stage of each event with the presence published with READY
StagesAsStated == [e \in Events |-> StageOf(e, 7)]

\* the events of every task so far follow the order of the stages
InStageOrder(stage) ==
    \A r \in Tasks :
        LET staged == SelectSeq(events[r], LAMBDA e : stage[e] # 0) IN
        \A i \in 1..(Len(staged) - 1) : stage[staged[i]] <= stage[staged[i + 1]]

\* no task enters a stage without the ones before it
NoStageSkipped ==
    \A r \in Tasks :
        LET happened == Range(events[r]) IN
        /\ "check_env" \in happened => ("isfile" \in happened \/ "init_db" \in happened)
        /\ "check_configs" \in happened => "check_env" \in happened
        /\ "check_db" \in happened => "check_configs" \in happened
        /\ "update_presence" \in happened => "check_db" \in happened
        /\ "load_extension" \in happened => "update_presence" \in happened
        /\ idx[r] > 0 => "update_presence" \in happened
        /\ "sync" \in happened => ("update_presence" \in happened /\ idx[r] > Len(listdir))
        /\ pc[r] = "sync" => "sync" \in happened
        /\ pc[r] = "done" => "info_synced" \in happened

\* C13: store initialization, environment check, configuration check, store
\* check, the extension loop, then READY, the presence being published with
\* READY, after the loop.
C13_PresenceAfterLoadAll == InStageOrder(StagesAsStated) /\ NoStageSkipped

\* C14: in one process image the bootstrap gets to its extension loop at most
\* once, and the loop never meets an extension that an earlier run of it loaded.
C14_BootstrapRunsOnce ==
    /\ Count("update_presence") <= 1
    /\ \A r \in Tasks : error[r] # "ExtensionAlreadyLoaded"

\* C15: every error a command raised, the unknown command apart, has been
\* logged at warning level once on_command_error has dealt with it.
C15_EveryErrorReported ==
    cmd_error \notin {"none", "CommandNotFound", "AppCommandError"} => warning = cmd_error

\* C16: the first step of on_ready calls init_db() exactly when the store file
\* is missing, leaves an existing store as it is, and, unless the store cannot
\* be created, is followed by the environment check, at once or when init_db()
\* has returned.
C16_InitOnlyWhenMissing ==
    [][\A r \in Tasks :
         /\ (pc[r] = "on_ready" /\ pc'[r] # pc[r]) =>
              /\ Happened(r, "init_db")' <=> ~storeExists
              /\ UNCHANGED store
              /\ pc'[r] = (IF storeExists THEN "check_env" ELSE "init_db")
         /\ (pc[r] = "init_db" /\ pc'[r] # pc[r] /\ error'[r] # "StoreFailure") =>
              /\ storeExists => UNCHANGED store
              /\ pc'[r] = "check_env"]_vars

\* C17: no step of an upload_data whose message carries no .db attachment
\* touches the store; the command ends at its first line in an error, IndexError
\* when the owner sent it, and when its task has ended that error has been sent
\* to the operator.
C17_UploadWithoutAttachment ==
    /\ [](\A t \in InFlight :
            (t.name = "upload_data" /\ t.arg = 0) =>
                t.pc = "handler" /\ t.error \in {"IndexError", "NotOwner"})
    /\ [][(\E t \in Started : t.name = "upload_data" /\ t.arg = 0) =>
            UNCHANGED store]_vars
    /\ [][(/\ BagCardinality(tasks') = BagCardinality(tasks) - 1
           /\ cmd'.name = "upload_data" /\ cmd'.arg = 0) =>
            /\ UNCHANGED store
            /\ cmd_error' \in {"IndexError", "NotOwner"}
            /\ reply' = cmd_error']_vars

\* C18: when the repair runs, the records it was given are the records that
\* are invalid in the store at that moment, and when it has run the store has
\* no invalid record.
C18_RepairSeesCurrentStore ==
    [][\A r \in Tasks :
         (pc[r] = "repair" /\ Happened(r, "repair")') =>
            /\ invalid_clients[r] = check_db(records, clients)
            /\ Happened(r, "info_repaired")' => check_db(records', clients) = {}]_vars

\* C19: no command of the operator makes the bootstrap end on a conflict in
\* the registry of extensions.
C19_CommandsDoNotStopBootstrap ==
    \A r \in Tasks : ~(pc[r] = "failed" /\ error[r] = "ExtensionAlreadyLoaded")
====
